---- MODULE Spec2Model ----
(***************************************************************************)
(* The gamepass scanner of src/bot.py: the TTL cache, the token-bucket     *)
(* rate gate, the retrying fetch layer and the composed price lookup, run  *)
(* by concurrent asyncio tasks.                                            *)
(*                                                                         *)
(* Time is counted in ticks of 1/TicksPerSec second and the token count in *)
(* units of 1/TokScale token; TicksPerSec is chosen so that every quantity *)
(* the code computes (refill, deficit sleep, 0.01 s floor, 0.25 s backoff) *)
(* is a whole number of ticks or units, so the arithmetic is exact.        *)
(***************************************************************************)
EXTENDS Integers, Sequences, FiniteSets, TLC

\* ------------------------------------------------------------ configuration
API_RPS == 3
\* the burst capacity, read from the environment (line 40); small, so that the bucket runs dry
API_BURST == 2
CACHE_TTL_SECONDS == 300
attempts == 3
RETRY_STATUSES == {429, 500, 502, 503, 504}

\* resolution of the float token count: units per token
TokScale == 100
\* ticks per second: one tick refills exactly one unit at API_RPS tokens/s
TicksPerSec == TokScale * API_RPS
\* asyncio.sleep(max(0.01, sleep_s)): the 0.01 s floor, in ticks
MinSleepTicks == TicksPerSec \div 100
TTLTicks == CACHE_TTL_SECONDS * TicksPerSec

\* ------------------------------------------------------------------ bounds
\* two concurrent lookups: scans started, clock advances
MaxScans == 3
MaxJumps == 1
\* one fetching task: scans started, clock advances
MaxFetchScans == 1
MaxFetchJumps == 4
\* the rate gate alone: calls made, clock advances
MaxGateCalls == 5
MaxGateJumps == 2
\* the cache alone: clock advances
MaxCacheJumps == 2
\* the batch orchestrator: length of the ID list
MaxIds == 7
\* the layout packer: length of the component list
MaxComps == 4
\* delivery: length of the component list
MaxSendComps == 3
\* extractor: number of tokens of the text
MaxTokens == 3
\* payout: largest price
MaxPrice == 120
\* force invalidation: entries in the cache, clock advances
MaxEntries == 3
MaxPurgeJumps == 1
\* a batch with its lookups: length of the ID list, responses other than a 200 with a price
MaxLiveIds == 7
MaxLiveFaults == 1
Tasks == {"t1", "t2"}
OneTask == {"t1"}
\* clock steps: a whole TTL and one tick more; a second; fractions of a token's refill time, and a second
TimeSteps == {TTLTicks, TTLTicks + 1}
FetchSteps == {TicksPerSec}
CacheSteps == {1, TTLTicks}
GateSteps == {1, MinSleepTicks, TokScale - 1, TokScale, TicksPerSec}
\* what the upstream can answer to one GET: a status, or a network fault
Statuses == {200, 401, 404, 429, 501, 503}
Bodies == {"priced", "noprice"}
GpId == "1234567"
ROBLOSECURITY_VALUES == {"", "cred"}

\* --------------------------------------------------------------- values
None == "None"
\* a parsed JSON body; `by` records whether the request carried the Cookie header
NoData == [body |-> None, by |-> FALSE]
Data(b, sent) == [body |-> b, by |-> sent]
NoPrice == -1
Pair(p, d) == [price |-> p, details |-> d]
NoRet == [price |-> -2, details |-> NoData]

Min(a, b) == IF a <= b THEN a ELSE b
Max(a, b) == IF a >= b THEN a ELSE b
Pow2(i) == IF i = 0 THEN 1 ELSE IF i = 1 THEN 2 ELSE 4

\* ---------------------------------------------------------------- cache
\* _cache: Dict[str, Tuple[float, Any]]; a function whose domain is the keys present
\* bool(cookie) and (cookie is not None), as Python evaluates them
PyBool(cookie) == cookie # None /\ cookie # ""
IsNotNone(cookie) == cookie # None
\* ROBLOSECURITY or None
OrNone(s) == IF s = "" THEN None ELSE s

\* a details key that drops the credential flag
DetailsKeyShared(cookie, id) == [kind |-> "details", auth |-> "-", id |-> id]
HttpKey(cookie, id) == [kind |-> "httpjson", auth |-> IF PyBool(cookie) THEN "True" ELSE "False", id |-> id]
DetailsKey(cookie, id) == [kind |-> "details", auth |-> IF IsNotNone(cookie) THEN "True" ELSE "False", id |-> id]
PriceKey(id) == [kind |-> "price_any", auth |-> "-", id |-> id]

\* a freshness test that expires an entry at age TTL already
getcExpiresAtTTL(c, key, bypass, clock) ==
    IF bypass THEN [cache |-> c, hit |-> FALSE, val |-> NoRet]
    ELSE IF key \notin DOMAIN c THEN [cache |-> c, hit |-> FALSE, val |-> NoRet]
    ELSE IF CACHE_TTL_SECONDS <= 0 \/ clock - c[key].ts >= TTLTicks
         THEN [cache |-> [k \in DOMAIN c \ {key} |-> c[k]], hit |-> FALSE, val |-> NoRet]
         ELSE [cache |-> c, hit |-> TRUE, val |-> c[key].val]

\* _getc: the cache after the read, the value read (hit FALSE is a miss)
getc(c, key, bypass, clock) ==
    IF bypass THEN [cache |-> c, hit |-> FALSE, val |-> NoRet]
    ELSE IF key \notin DOMAIN c THEN [cache |-> c, hit |-> FALSE, val |-> NoRet]
    ELSE IF CACHE_TTL_SECONDS <= 0 \/ clock - c[key].ts > TTLTicks
         THEN [cache |-> [k \in DOMAIN c \ {key} |-> c[k]], hit |-> FALSE, val |-> NoRet]
         ELSE [cache |-> c, hit |-> TRUE, val |-> c[key].val]

setc(c, key, val, clock) ==
    [k \in DOMAIN c \cup {key} |-> IF k = key THEN [ts |-> clock, val |-> val] ELSE c[k]]

\* gp_id in k, on the digits of the key's subject
IsSubstr(s, k) ==
    \E off \in 0..(Len(k) - Len(s)) : \A j \in 1..Len(s) : k[off + j] = s[j]
Digits(id) ==
    IF id = "1234567" THEN <<1, 2, 3, 4, 5, 6, 7>>
    ELSE IF id = "123456" THEN <<1, 2, 3, 4, 5, 6>>
    ELSE IF id = "7654321" THEN <<7, 6, 5, 4, 3, 2, 1>>
    ELSE <<>>
clear_gp_cache(c, gp_id) ==
    [k \in {q \in DOMAIN c : ~IsSubstr(Digits(gp_id), Digits(q.id))} |-> c[k]]

\* ------------------------------------------------------------ rate gate
\* the refill without its cap
ReplenishUncapped(tokens, last, clock) ==
    tokens + ((clock - last) * API_RPS * TokScale) \div TicksPerSec
\* the deficit taken as seconds, not divided by the rate
SleepTicksNoRate(tokens) ==
    Max(MinSleepTicks, ((TokScale - tokens) * TicksPerSec) \div TokScale)
\* line 113: min(API_BURST, _api_tokens + (now - _api_last) * API_RPS), in units
Replenish(tokens, last, clock) ==
    Min(API_BURST * TokScale, tokens + ((clock - last) * API_RPS * TokScale) \div TicksPerSec)
\* lines 118-120: max(0.01, (1 - _api_tokens) / API_RPS), in ticks
SleepTicks(tokens) ==
    Max(MinSleepTicks, ((TokScale - tokens) * TicksPerSec) \div (API_RPS * TokScale))
\* 0.25 * 2 ** i seconds, in ticks
Backoff(i) == (TicksPerSec \div 4) * Pow2(i)

\* ------------------------------------------------------------------ state
VARIABLES
    ROBLOSECURITY,  \* the configured credential, "" when unset (line 41)
    cache,          \* _cache
    now,            \* the clock read by time.time() and time.monotonic(), in ticks
    api_tokens,     \* _api_tokens, in units of 1/TokScale token
    api_last,       \* _api_last
    api_lock,       \* the task inside `async with _api_lock`, or None
    task,           \* per task: where it is suspended, its locals, and its history
    scans,          \* scan_one calls started so far
    jumps,          \* clock advances so far
    gcalls,         \* history: bare calls of _api_rate_gate made so far
    released,       \* history: bare calls of _api_rate_gate that have returned to their caller
    first,          \* history: the first (time, pair) get_price_any stored since the last force scan began
    last,           \* history: the most recent one
    cop,            \* the cache used on its own: the last operation and what it returned
    batch,          \* one call of build_components_for_ids: its tasks, semaphore, tallies and result
    pk,             \* one call of _chunk_components: its argument and what it returned
    snd,            \* one call of send_components_message: its loop and the calls it has made
    ex,             \* one call of extract_gamepass_id: its argument and what it returned
    pay,            \* one call of robux_received_after_fee: its argument, its fee, its result
    pg,             \* the last call of _clear_gp_cache: its argument and the cache it found
    lv              \* one batch with its lookups: the tasks and the permits

\* the state of the parts exercised on their own
others == <<cop, batch, pk, snd, ex, pay, pg, lv>>

vars == <<ROBLOSECURITY, cache, now, api_tokens, api_last, api_lock, task, scans,
          jumps, gcalls, released, first, last, others>>

\* a price found in the details
Price == 100

\* history of one _http_get_json call
FetchInit == [called |-> FALSE, active |-> FALSE, tries |-> 0, acquires |-> 0,
              s401 |-> FALSE, after401 |-> 0, s200 |-> FALSE, ret |-> "-", owed |-> 0]
\* history of one get_price_via_api call
LookupInit == [started |-> FALSE, done |-> FALSE, cookie |-> None, price |-> NoPrice,
               dret |-> NoData, src |-> "-"]
\* history of one _api_rate_gate call
GateInit == [enter |-> 0, slept |-> 0, dec |-> 0, back |-> FALSE]
NoStore == [valid |-> FALSE, t |-> 0, pair |-> NoRet]

TaskInit == [pc |-> "idle", force |-> FALSE, ph |-> 0, cookie |-> None, i |-> 0, wake |-> 0,
             ret |-> NoRet, stored |-> FALSE, raised |-> FALSE,
             lk |-> <<LookupInit, LookupInit>>, f |-> <<FetchInit, FetchInit>>,
             g |-> GateInit, req |-> {}, reqLast |-> {}]

\* the keys and values the cache is exercised with
CacheKeys == {PriceKey(GpId), DetailsKey(None, GpId)}
CacheVals == {Pair(Price, Data("priced", FALSE)), Pair(NoPrice, NoData)}
\* no entry written
NoEntry == [ts |-> -1, val |-> NoRet]
NoOp == [op |-> "-", key |-> PriceKey(GpId), bypass |-> FALSE, at |-> 0, hit |-> FALSE,
         ret |-> NoRet, before |-> [k \in {} |-> NoRet], sets |-> [k \in CacheKeys |-> NoEntry]]

\* asyncio.Semaphore(6), line 446
Permits == 6
\* build_components_for_ids before it is called
NoBatch == [pc |-> "idle", n |-> 0, one |-> <<>>, res |-> <<>>, sem |-> Permits,
            total_price |-> 0, n_with_price |-> 0, out |-> <<>>]

\* _chunk_components before it is called
NoPack == [pc |-> "idle", components |-> <<>>, chunks |-> <<>>]

\* send_components_message before it is called; posts are the payloads of the POSTs made,
\* failed the index of the chunk whose POST failed, notices the followup.send calls made
\* and delivered those that succeeded
NoSend == [pc |-> "idle", chunks |-> <<>>, idx |-> 0, posts |-> <<>>, failed |-> 0,
           notices |-> 0, delivered |-> 0]

\* extract_gamepass_id returning None
NoId == [pattern |-> 0, at |-> 0, digits |-> 0]
\* extract_gamepass_id before it is called
NoExtract == [pc |-> "idle", text |-> <<>>, ret |-> NoId]

\* robux_received_after_fee before it is called
NoPay == [pc |-> "idle", price |-> NoPrice, fee |-> 0, ret |-> NoPrice]

\* _clear_gp_cache not called since the last store
NoPurge == [op |-> "-", gp_id |-> "", before |-> [k \in {} |-> NoEntry]]

\* one(gid) before it has its permit: the lookup it is in (ph), the attempt (i), the GETs it
\* has sent (tries), what it returned
LiveTask == [pc |-> "wait", ph |-> 0, i |-> 0, tries |-> 0, ret |-> "-"]
\* build_components_for_ids before it is called; faults is the responses so far other than
\* a 200 with a price, out the cards returned
NoLive == [pc |-> "idle", n |-> 0, sem |-> Permits, faults |-> 0, one |-> <<>>, out |-> 0]

Init ==
    /\ cop = NoOp
    /\ batch = NoBatch
    /\ pk = NoPack
    /\ snd = NoSend
    /\ ex = NoExtract
    /\ pay = NoPay
    /\ pg = NoPurge
    /\ lv = NoLive
    /\ ROBLOSECURITY \in ROBLOSECURITY_VALUES
    /\ cache = [k \in {} |-> NoRet]
    /\ now = 0
    /\ api_tokens = API_BURST * TokScale
    /\ api_last = 0
    /\ api_lock = None
    /\ task = [t \in Tasks |-> TaskInit]
    /\ scans = 0
    /\ jumps = 0
    /\ gcalls = 0
    /\ released = 0
    /\ first = NoStore
    /\ last = NoStore

\* ------------------------------------------------- the composed price lookup
\* get_price_via_api, lines 212-221: the (price, details) pair made of what api_get_details returned
get_price_via_api(data) ==
    IF data = NoData \/ data.body = "empty" THEN Pair(NoPrice, NoData)
    ELSE IF data.body = "priced" THEN Pair(Price, data)
    ELSE Pair(NoPrice, data)

\* a hit that only counts when it holds a price
PriceHitUsable(g) == g.hit /\ g.val.price # NoPrice
\* the anonymous lookup made whatever the first one found
AlwaysAnonymous(price) == TRUE
\* a loop of one iteration more
LoopContinuesOneMore(i) == i < attempts
\* line 227: `if hit is not None`
PriceHit(g) == g.hit
\* line 231: `if price is None`
NeedAnonymous(price) == price = NoPrice
\* line 173: for i in range(attempts)
LoopContinues(i) == i + 1 < attempts

\* lines 175-180: the gate has returned, the GET is sent
IssueRequest(tk) ==
    [tk EXCEPT !.pc = "http", !.g = GateInit,
               !.f[tk.ph].tries = @ + 1,
               !.f[tk.ph].after401 = @ + (IF tk.f[tk.ph].s401 THEN 1 ELSE 0)]

\* a loop that awaits the gate once, before its first iteration only
BeginAttemptGatedOnce(tk, i) ==
    IF i = 0 THEN [tk EXCEPT !.pc = "gate", !.i = i] ELSE IssueRequest([tk EXCEPT !.i = i])

\* lines 173-174: every iteration of the loop first awaits the rate gate
BeginAttempt(tk, i) == [tk EXCEPT !.pc = "gate", !.i = i]

\* lines 233-234: store the resolved pair and return it
PriceAnyFinish(c, tk, pair, clock) ==
    [cache |-> setc(c, PriceKey(GpId), pair, clock),
     tk |-> [tk EXCEPT !.pc = "idle", !.ret = pair, !.stored = TRUE]]

RECURSIVE StartLookup(_, _, _, _)
\* api_get_details returned `data` (from src) to get_price_via_api: lines 212-221, then 231-234
EndLookup(c, tk, data, src, clock) ==
    LET ph == tk.ph
        pair == get_price_via_api(data)
        tk1 == [tk EXCEPT !.lk[ph].done = TRUE, !.lk[ph].price = pair.price,
                          !.lk[ph].dret = data, !.lk[ph].src = src]
    IN  IF ph = 1 /\ NeedAnonymous(pair.price)
        THEN StartLookup(c, tk1, 2, clock)
        ELSE PriceAnyFinish(c, tk1, pair, clock)

\* get_price_via_api(gp_id, cookie) -> api_get_details -> _http_get_json, up to the
\* first suspension: lines 211, 199-204, 167-174. force is not passed down (line 211).
StartLookup(c, tk, ph, clock) ==
    LET cookie == IF ph = 1 THEN OrNone(ROBLOSECURITY) ELSE None
        tk1 == [tk EXCEPT !.ph = ph, !.cookie = cookie, !.lk[ph].started = TRUE,
                          !.lk[ph].cookie = cookie]
        g == getc(c, DetailsKey(cookie, GpId), FALSE, clock)
        h == getc(g.cache, HttpKey(cookie, GpId), FALSE, clock)
    IN  IF g.hit THEN EndLookup(g.cache, tk1, g.val, "details", clock)
        ELSE IF h.hit
        THEN EndLookup(setc(h.cache, DetailsKey(cookie, GpId), h.val, clock),
                       [tk1 EXCEPT !.f[ph].called = TRUE, !.f[ph].ret = "data"],
                       h.val, "httpjson", clock)
        ELSE [cache |-> h.cache,
              tk |-> BeginAttempt([tk1 EXCEPT !.f[ph].called = TRUE, !.f[ph].active = TRUE], 0)]

\* get_price_any, lines 225-230
get_price_any(c, tk, force, clock) ==
    LET g == getc(c, PriceKey(GpId), force, clock)
    IN  IF PriceHit(g)
        THEN [cache |-> g.cache, tk |-> [tk EXCEPT !.pc = "idle", !.ret = g.val]]
        ELSE StartLookup(g.cache, tk, 1, clock)

\* a forced scan that does not purge
scan_oneNoPurge(c, tk, force, clock) == get_price_any(c, tk, force, clock)

\* scan_one, lines 432-434 (best_price_and_details only forwards)
scan_one(c, tk, force, clock) ==
    get_price_any(IF force THEN clear_gp_cache(c, GpId) ELSE c, tk, force, clock)

\* the history of a _http_get_json call that has returned
Returned(tk, how) ==
    [tk EXCEPT !.f[tk.ph].active = FALSE, !.f[tk.ph].ret = how, !.f[tk.ph].owed = 0]

\* _http_get_json returned None (lines 186, 194); api_get_details stores nothing (line 205)
FetchNone(c, tk, clock) == EndLookup(c, Returned(tk, "none"), NoData, "upstream", clock)

\* lines 182-184 and 205-207: parse, store under both keys, return the data
FetchData(c, tk, data, clock) ==
    LET c1 == setc(c, HttpKey(tk.cookie, GpId), data, clock)
        c2 == setc(c1, DetailsKey(tk.cookie, GpId), data, clock)
        tk1 == [tk EXCEPT !.f[tk.ph].after401 = @ + (IF tk.f[tk.ph].s401 THEN 1 ELSE 0)]
    IN  EndLookup(c2, Returned(tk1, "data"), data, "upstream", clock)

\* the loop moves on from attempt i (`continue`, or falling out of the with blocks)
NextIteration(c, tk, clock) ==
    IF LoopContinues(tk.i)
    THEN [cache |-> c, tk |-> BeginAttempt(tk, tk.i + 1)]
    ELSE FetchNone(c, tk, clock)

\* ------------------------------------------------------------- one attempt
\* what the upstream does to one GET; status 0 is a network-level exception,
\* body "badjson" a 200 whose body resp.json() cannot parse
Responses ==
    {[status |-> 0, body |-> None]}
    \cup {[status |-> 200, body |-> b] : b \in Bodies \cup {"badjson"}}
    \cup {[status |-> st, body |-> None] : st \in Statuses \ {200}}

\* a 401 handled like the retryable statuses
AttemptOutcome401Retried(r) ==
    IF r.status = 0 \/ (r.status = 200 /\ r.body = "badjson") THEN "except"
    ELSE IF r.status = 200 THEN "data"
    ELSE IF r.status = 401 \/ r.status \in RETRY_STATUSES THEN "backoff"
    ELSE "next"

\* lines 178-193: what the loop body does with the response of attempt i
AttemptOutcome(r) ==
    IF r.status = 0 \/ (r.status = 200 /\ r.body = "badjson") THEN "except"   \* lines 190-193
    ELSE IF r.status = 200 THEN "data"                                       \* lines 181-184
    ELSE IF r.status = 401 THEN "none"                                       \* lines 185-186
    ELSE IF r.status \in RETRY_STATUSES THEN "backoff"                       \* lines 187-189
    ELSE "next"                                                              \* falls through to line 173

Is429or5xx(st) == st = 429 \/ st \in 500..599

\* the history kept of a response: a 401 seen, a 200 seen, the backoff a 429 or 5xx calls for
Noted(tk, r) ==
    [tk EXCEPT !.f[tk.ph].s401 = @ \/ r.status = 401,
               !.f[tk.ph].s200 = @ \/ r.status = 200,
               !.f[tk.ph].owed = IF Is429or5xx(r.status) THEN Backoff(tk.i) ELSE 0]

\* await asyncio.sleep(0.25 * (2 ** i)), lines 188 and 192
StartBackoff(tk, clock) ==
    [tk EXCEPT !.pc = "backoff", !.wake = clock + Backoff(tk.i),
               !.f[tk.ph].after401 = @ + (IF tk.f[tk.ph].s401 THEN 1 ELSE 0)]

\* an exception leaving _http_get_json would leave every caller up to scan_one
Propagate(tk) == [Returned(tk, "raised") EXCEPT !.pc = "idle", !.raised = TRUE]

\* the task runs from the response to its next suspension
OnResponse(c, tk, r, clock) ==
    LET k == AttemptOutcome(r)
        tk1 == Noted(tk, r)
    IN  CASE k = "data" -> FetchData(c, tk1, Data(r.body, PyBool(tk.cookie)), clock)
          [] k = "none" -> FetchNone(c, tk1, clock)
          [] k \in {"backoff", "except"} -> [cache |-> c, tk |-> StartBackoff(tk1, clock)]
          [] k = "next" -> NextIteration(c, tk1, clock)
          [] OTHER -> [cache |-> c, tk |-> Propagate(tk1)]

\* ---------------------------------------------------------------- history
\* a get_price_any that stored its pair has returned
Stores(tk) == tk.pc = "idle" /\ tk.stored
Stored(tk, clock) == [valid |-> TRUE, t |-> clock, pair |-> tk.ret]
FirstAfter(f, tk, clock) == IF Stores(tk) /\ ~f.valid THEN Stored(tk, clock) ELSE f
LastAfter(l, tk, clock) == IF Stores(tk) THEN Stored(tk, clock) ELSE l
\* the pair of a store made at most TTL ago
Fresh(e, clock) == IF e.valid /\ clock - e.t <= TTLTicks THEN {e.pair} ELSE {}

\* ---------------------------------------------------------------- actions
\* a command handler calls scan_one(gp_id, force=force); it runs to its first suspension
Scan(t, force, maxScans) ==
    /\ task[t].pc = "idle"
    /\ scans < maxScans
    /\ LET f0 == IF force THEN NoStore ELSE first
           l0 == IF force THEN NoStore ELSE last
           tk0 == [TaskInit EXCEPT !.force = force,
                                   !.req = Fresh(f0, now), !.reqLast = Fresh(l0, now)]
           res == scan_one(cache, tk0, force, now)
       IN  /\ cache' = res.cache
           /\ task' = [task EXCEPT ![t] = res.tk]
           /\ first' = FirstAfter(f0, res.tk, now)
           /\ last' = LastAfter(l0, res.tk, now)
    /\ scans' = scans + 1
    /\ UNCHANGED <<others, ROBLOSECURITY, now, api_tokens, api_last, api_lock, jumps, gcalls, released>>

\* line 111: async with _api_lock
GateAcquire(t) ==
    /\ task[t].pc = "gate"
    /\ api_lock = None
    /\ api_lock' = t
    /\ task' = [task EXCEPT ![t].pc = "gatecs"]
    /\ UNCHANGED <<others, ROBLOSECURITY, cache, now, api_tokens, api_last, scans, jumps, gcalls,
                   released, first, last>>

\* line 115
GateAdmit(tokens) == tokens >= TokScale

\* _api_rate_gate returns: to line 175 of the fetch loop, or to a bare caller
Resume(tk) ==
    IF tk.ph = 0 THEN [tk EXCEPT !.pc = "returned", !.g.back = TRUE]
    ELSE IssueRequest([tk EXCEPT !.f[tk.ph].acquires = @ + 1])

\* lines 112-119, and on the admitting path the return
GateBody(t) ==
    /\ task[t].pc = "gatecs"
    /\ api_lock = t
    /\ LET tokens == Replenish(api_tokens, api_last, now)
           tk == task[t]
           g0 == [GateInit EXCEPT !.enter = now]
       IN  IF GateAdmit(tokens)
           THEN /\ api_tokens' = tokens - TokScale
                /\ task' = [task EXCEPT ![t] = Resume([tk EXCEPT !.g = [g0 EXCEPT !.dec = 1]])]
           ELSE /\ api_tokens' = tokens
                /\ task' = [task EXCEPT ![t] =
                       [tk EXCEPT !.pc = "gatesleep", !.wake = now + SleepTicks(tokens),
                                  !.g = [g0 EXCEPT !.slept = SleepTicks(tokens)]]]
    /\ api_last' = now
    /\ api_lock' = None
    /\ UNCHANGED <<others, ROBLOSECURITY, cache, now, scans, jumps, gcalls, released, first, last>>

\* line 120: the sleep is over, _api_rate_gate returns
GateWake(t) ==
    /\ task[t].pc = "gatesleep"
    /\ now >= task[t].wake
    /\ task' = [task EXCEPT ![t] = Resume(task[t])]
    /\ UNCHANGED <<others, ROBLOSECURITY, cache, now, api_tokens, api_last, api_lock, scans, jumps,
                   gcalls, released, first, last>>

\* line 180: the upstream answers (or the request fails)
HttpResponse(t, r) ==
    /\ task[t].pc = "http"
    /\ LET res == OnResponse(cache, task[t], r, now)
       IN  /\ cache' = res.cache
           /\ task' = [task EXCEPT ![t] = res.tk]
           /\ first' = FirstAfter(first, res.tk, now)
           /\ last' = LastAfter(last, res.tk, now)
    /\ UNCHANGED <<others, ROBLOSECURITY, now, api_tokens, api_last, api_lock, scans, jumps, gcalls,
                   released>>

\* lines 188-189, 192-193: the backoff sleep is over, `continue`
BackoffWake(t) ==
    /\ task[t].pc = "backoff"
    /\ now >= task[t].wake
    /\ LET res == NextIteration(cache, [task[t] EXCEPT !.f[task[t].ph].owed = 0], now)
       IN  /\ cache' = res.cache
           /\ task' = [task EXCEPT ![t] = res.tk]
           /\ first' = FirstAfter(first, res.tk, now)
           /\ last' = LastAfter(last, res.tk, now)
    /\ UNCHANGED <<others, ROBLOSECURITY, now, api_tokens, api_last, api_lock, scans, jumps, gcalls,
                   released>>

\* time passes
Tick(d, maxJumps) ==
    /\ jumps < maxJumps
    /\ now' = now + d
    /\ jumps' = jumps + 1
    /\ UNCHANGED <<others, ROBLOSECURITY, cache, api_tokens, api_last, api_lock, task, scans, gcalls,
                   released, first, last>>

\* the responses that end a fetch at its first attempt
OneShot == {r \in Responses : AttemptOutcome(r) \in {"data", "none"}}

\* the whole program
Next ==
    \/ \E t \in Tasks, force \in BOOLEAN : Scan(t, force, MaxScans)
    \/ \E t \in Tasks : GateAcquire(t)
    \/ \E t \in Tasks : GateBody(t)
    \/ \E t \in Tasks : GateWake(t)
    \/ \E t \in Tasks, r \in Responses : HttpResponse(t, r)
    \/ \E t \in Tasks : BackoffWake(t)
    \/ \E d \in TimeSteps \cup FetchSteps : Tick(d, MaxJumps)
Spec == Init /\ [][Next]_vars

\* one task, every response and every retry path
NextFetch ==
    \/ \E t \in OneTask, force \in BOOLEAN : Scan(t, force, MaxFetchScans)
    \/ \E t \in OneTask : GateAcquire(t)
    \/ \E t \in OneTask : GateBody(t)
    \/ \E t \in OneTask : GateWake(t)
    \/ \E t \in OneTask, r \in Responses : HttpResponse(t, r)
    \/ \E t \in OneTask : BackoffWake(t)
    \/ \E d \in FetchSteps : Tick(d, MaxFetchJumps)
SpecFetch == Init /\ [][NextFetch]_vars

\* concurrent tasks whose fetches are answered at the first attempt
NextLookup ==
    \/ \E t \in Tasks, force \in BOOLEAN : Scan(t, force, MaxScans)
    \/ \E t \in Tasks : GateAcquire(t)
    \/ \E t \in Tasks : GateBody(t)
    \/ \E t \in Tasks : GateWake(t)
    \/ \E t \in Tasks, r \in OneShot : HttpResponse(t, r)
    \/ \E d \in TimeSteps : Tick(d, MaxJumps)
SpecLookup == Init /\ [][NextLookup]_vars

\* ------------------------------------------------ the rate gate on its own
\* a caller awaits _api_rate_gate() (as line 174 does) and nothing else
GateCall(t) ==
    /\ task[t].pc = "idle"
    /\ gcalls < MaxGateCalls
    /\ task' = [task EXCEPT ![t] = [TaskInit EXCEPT !.pc = "gate"]]
    /\ gcalls' = gcalls + 1
    /\ UNCHANGED <<others, ROBLOSECURITY, cache, now, api_tokens, api_last, api_lock, scans, jumps,
                   released, first, last>>

\* the caller has its answer
GateReturn(t) ==
    /\ task[t].pc = "returned"
    /\ task' = [task EXCEPT ![t].pc = "idle"]
    /\ released' = released + 1
    /\ UNCHANGED <<others, ROBLOSECURITY, cache, now, api_tokens, api_last, api_lock, scans, jumps,
                   gcalls, first, last>>

NextGate ==
    \/ \E t \in Tasks : GateCall(t)
    \/ \E t \in Tasks : GateAcquire(t)
    \/ \E t \in Tasks : GateBody(t)
    \/ \E t \in Tasks : GateWake(t)
    \/ \E t \in Tasks : GateReturn(t)
    \/ \E d \in GateSteps : Tick(d, MaxGateJumps)

SpecGate == Init /\ [][NextGate]_vars

\* ------------------------------------------------ the cache on its own
\* _setc(k, v)
CacheSet(k, v) ==
    /\ cache' = setc(cache, k, v, now)
    /\ cop' = [op |-> "set", key |-> k, bypass |-> FALSE, at |-> now, hit |-> FALSE, ret |-> v,
               before |-> cache, sets |-> [cop.sets EXCEPT ![k] = [ts |-> now, val |-> v]]]
    /\ UNCHANGED <<lv, batch, pk, snd, ex, pay, pg, ROBLOSECURITY, now, api_tokens, api_last, api_lock, task, scans, jumps,
                   gcalls, released, first, last>>

\* _getc(k, bypass=bypass)
CacheGet(k, bypass) ==
    /\ LET g == getc(cache, k, bypass, now)
       IN  /\ cache' = g.cache
           /\ cop' = [op |-> "get", key |-> k, bypass |-> bypass, at |-> now, hit |-> g.hit,
                      ret |-> g.val, before |-> cache, sets |-> cop.sets]
    /\ UNCHANGED <<lv, batch, pk, snd, ex, pay, pg, ROBLOSECURITY, now, api_tokens, api_last, api_lock, task, scans, jumps,
                   gcalls, released, first, last>>

NextCache ==
    \/ \E k \in CacheKeys, v \in CacheVals : CacheSet(k, v)
    \/ \E k \in CacheKeys, bypass \in BOOLEAN : CacheGet(k, bypass)
    \/ \E d \in CacheSteps : Tick(d, MaxCacheJumps)

SpecCache == Init /\ [][NextCache]_vars

\* ------------------------------------------------ the batch orchestrator
\* how one scan_one call ends: it raises, returns no price, or returns a price
BatchOutcomes == {"raise", "none", "priced"}
\* the price the upstream has for the i-th ID of the list
PriceAt(i) == i - 1
\* the container scan_one returns for gid (build_card or build_not_found_container)
ScanCard(gid, price) == [kind |-> "card", gid |-> gid, price |-> price]
\* the degraded container of lines 460-479
ErrCard(gid) == [kind |-> "error", gid |-> gid, price |-> NoPrice]
\* an exception leaving one()
Exc(gid) == [kind |-> "exception", gid |-> gid, price |-> NoPrice]
\* build_summary, lines 395-401: the three counts and the total
build_summary(total_price, n_scanned, n_with_price) ==
    [kind |-> "summary", total_price |-> total_price, n_scanned |-> n_scanned,
     n_with_price |-> n_with_price, missing |-> n_scanned - n_with_price]

\* an exception of scan_one that one() lets through
OneResultUncaught(gid, o, price) ==
    IF o = "raise" THEN Exc(gid) ELSE ScanCard(gid, IF o = "priced" THEN price ELSE NoPrice)
\* lines 453-479: what one(gid) returns
OneResult(gid, o, price) ==
    IF o = "raise" THEN ErrCard(gid) ELSE ScanCard(gid, IF o = "priced" THEN price ELSE NoPrice)

\* a tally that takes a price of 0 for no price (`if price:`)
TallyTruthy(b, o, price) ==
    IF o = "priced" /\ price # 0
    THEN [b EXCEPT !.n_with_price = @ + 1, !.total_price = @ + price]
    ELSE b
\* lines 455-457: `if price is not None`
Tally(b, o, price) ==
    IF o = "priced"
    THEN [b EXCEPT !.n_with_price = @ + 1, !.total_price = @ + price]
    ELSE b

\* a semaphore that never blocks
SemAlwaysFree(sem) == TRUE
\* asyncio.Semaphore.acquire returns when the value is positive
SemFree(sem) == sem > 0

\* build_components_for_ids(gp_ids) is called with n IDs: lines 444-481
BatchCall(n) ==
    /\ batch.pc = "idle"
    /\ batch' = IF n = 0
                THEN [NoBatch EXCEPT !.pc = "returned"]
                ELSE [NoBatch EXCEPT !.pc = "gather", !.n = n,
                                     !.one = [i \in 1..n |-> "new"],
                                     !.res = [i \in 1..n |-> Exc(0)]]
    /\ UNCHANGED <<lv, cop, pk, snd, ex, pay, pg, cache, ROBLOSECURITY, now, api_tokens, api_last, api_lock, task, scans,
                   jumps, gcalls, released, first, last>>

\* line 452-454: task i enters `async with sem` and awaits scan_one
OneAcquire(i) ==
    /\ batch.pc = "gather"
    /\ i \in 1..batch.n
    /\ batch.one[i] = "new"
    /\ SemFree(batch.sem)
    /\ batch' = [batch EXCEPT !.sem = @ - 1, !.one[i] = "scan"]
    /\ UNCHANGED <<lv, cop, pk, snd, ex, pay, pg, cache, ROBLOSECURITY, now, api_tokens, api_last, api_lock, task, scans,
                   jumps, gcalls, released, first, last>>

\* lines 454-479: scan_one ends, the tallies are updated, the permit is released
OneFinish(i, o) ==
    /\ batch.pc = "gather"
    /\ i \in 1..batch.n
    /\ batch.one[i] = "scan"
    /\ batch' = [Tally(batch, o, PriceAt(i)) EXCEPT
                    !.sem = @ + 1, !.one[i] = o, !.res[i] = OneResult(i, o, PriceAt(i))]
    /\ UNCHANGED <<lv, cop, pk, snd, ex, pay, pg, cache, ROBLOSECURITY, now, api_tokens, api_last, api_lock, task, scans,
                   jumps, gcalls, released, first, last>>

\* lines 482-484: gather returns the results in task order, the summary is appended
BatchGather ==
    /\ batch.pc = "gather"
    /\ \A i \in 1..batch.n : batch.one[i] \in BatchOutcomes
    /\ batch' = IF \E i \in 1..batch.n : batch.res[i].kind = "exception"
                THEN [batch EXCEPT !.pc = "raised"]
                ELSE [batch EXCEPT !.pc = "returned",
                        !.out = Append(batch.res,
                                  build_summary(batch.total_price, batch.n, batch.n_with_price))]
    /\ UNCHANGED <<lv, cop, pk, snd, ex, pay, pg, cache, ROBLOSECURITY, now, api_tokens, api_last, api_lock, task, scans,
                   jumps, gcalls, released, first, last>>

NextBatch ==
    \/ \E n \in 0..MaxIds : BatchCall(n)
    \/ \E i \in 1..MaxIds : OneAcquire(i)
    \/ \E i \in 1..MaxIds, o \in BatchOutcomes : OneFinish(i, o)
    \/ BatchGather

SpecBatch == Init /\ [][NextBatch]_vars

\* ------------------------------------------------ the layout packer
\* _chunk_components(components, limit=40), line 308
ChunkLimit == 40
\* the components packed: a leaf, containers (type 17) of leaves, a section (type 9) of
\* leaves with an accessory; their sizes are 1, 20, 21, 40, 41 and 20
ComponentKinds ==
    {[type |-> 10, kids |-> 0, accessory |-> FALSE],
     [type |-> 17, kids |-> 19, accessory |-> FALSE],
     [type |-> 17, kids |-> 20, accessory |-> FALSE],
     [type |-> 17, kids |-> 39, accessory |-> FALSE],
     [type |-> 17, kids |-> 40, accessory |-> FALSE],
     [type |-> 9, kids |-> 18, accessory |-> TRUE]}
\* the component lists of length n; a component is told from another by its position
ComponentLists(n) ==
    {[i \in 1..n |-> [id |-> i, type |-> f[i].type, kids |-> f[i].kids,
                      accessory |-> f[i].accessory]] : f \in [1..n -> ComponentKinds]}

\* _component_size, lines 297-305, for children and accessories that are leaves
component_size(comp) ==
    1 + (IF comp.type \in {9, 17} THEN comp.kids ELSE 0)
      + (IF comp.type = 9 /\ comp.accessory THEN 1 ELSE 0)

\* a flush that loses the current chunk
FlushedAway(chunks, current) == chunks
\* lines 315-318, 322-324, 327-328: the current chunk, when not empty, is appended
Flushed(chunks, current) == IF current # <<>> THEN Append(chunks, current) ELSE chunks

\* an overflow test made on the chunk before the component is added
OverflowsLate(current_size, comp_size, limit) == current_size > limit
\* line 321: current_size + comp_size > limit
Overflows(current_size, comp_size, limit) == current_size + comp_size > limit

\* the loop of lines 312-326 from component i on, then lines 327-329
RECURSIVE ChunkLoop(_, _, _, _, _, _)
ChunkLoop(components, i, limit, chunks, current, current_size) ==
    IF i > Len(components) THEN Flushed(chunks, current)
    ELSE LET comp == components[i]
             comp_size == component_size(comp)
         IN  IF comp_size > limit
             THEN ChunkLoop(components, i + 1, limit,
                            Append(Flushed(chunks, current), <<comp>>), <<>>, 0)
             ELSE IF Overflows(current_size, comp_size, limit) /\ current # <<>>
             THEN ChunkLoop(components, i + 1, limit,
                            Flushed(chunks, current), <<comp>>, comp_size)
             ELSE ChunkLoop(components, i + 1, limit,
                            chunks, Append(current, comp), current_size + comp_size)

chunk_components(components, limit) == ChunkLoop(components, 1, limit, <<>>, <<>>, 0)

\* _chunk_components(components) is called and returns
ChunkCall(components) ==
    /\ pk.pc = "idle"
    /\ pk' = [pc |-> "returned", components |-> components,
              chunks |-> chunk_components(components, ChunkLimit)]
    /\ UNCHANGED <<lv, cop, batch, snd, ex, pay, pg, cache, ROBLOSECURITY, now, api_tokens, api_last, api_lock, task,
                   scans, jumps, gcalls, released, first, last>>

NextPack == \E n \in 0..MaxComps : \E components \in ComponentLists(n) : ChunkCall(components)

SpecPack == Init /\ [][NextPack]_vars

\* ------------------------------------------------ delivery
\* how one outbound call ends: it succeeds, is answered with a status >= 400 (line 335),
\* or raises
PostOutcomes == {"ok", "status", "raise"}
NoticeOutcomes == {"ok", "raise"}

\* line 352-354: the POST of chunk idx is made
Post(s, idx) == [s EXCEPT !.pc = "post", !.idx = idx, !.posts = Append(@, s.chunks[idx])]

\* the loop of line 351 moves on after chunk s.idx
NextChunk(s) ==
    IF s.idx < Len(s.chunks) THEN Post(s, s.idx + 1) ELSE [s EXCEPT !.pc = "returned"]

\* a loop that goes on with the next chunk after the notice
AfterNoticeContinue(s) == NextChunk(s)
\* line 361: break
AfterNotice(s) == [s EXCEPT !.pc = "returned"]

\* send_components_message(interaction, components) is called: lines 346-354
SendCall(components) ==
    /\ snd.pc = "idle"
    /\ snd' = IF components = <<>>
              THEN [NoSend EXCEPT !.pc = "returned"]
              ELSE Post([NoSend EXCEPT !.chunks = chunk_components(components, ChunkLimit)], 1)
    /\ UNCHANGED <<lv, cop, batch, pk, ex, pay, pg, cache, ROBLOSECURITY, now, api_tokens, api_last, api_lock,
                   task, scans, jumps, gcalls, released, first, last>>

\* lines 332-337, 353-357: the POST ends; on failure the notice is sent
PostEnds(o) ==
    /\ snd.pc = "post"
    /\ snd' = IF o = "ok" THEN NextChunk(snd)
              ELSE [snd EXCEPT !.pc = "notice", !.failed = snd.idx, !.notices = @ + 1]
    /\ UNCHANGED <<lv, cop, batch, pk, ex, pay, pg, cache, ROBLOSECURITY, now, api_tokens, api_last, api_lock,
                   task, scans, jumps, gcalls, released, first, last>>

\* lines 357-361: followup.send ends; its exception is caught nowhere in the function
NoticeEnds(o) ==
    /\ snd.pc = "notice"
    /\ snd' = IF o = "ok" THEN AfterNotice([snd EXCEPT !.delivered = @ + 1])
              ELSE [snd EXCEPT !.pc = "raised"]
    /\ UNCHANGED <<lv, cop, batch, pk, ex, pay, pg, cache, ROBLOSECURITY, now, api_tokens, api_last, api_lock,
                   task, scans, jumps, gcalls, released, first, last>>

NextSend ==
    \/ \E n \in 0..MaxSendComps : \E components \in ComponentLists(n) : SendCall(components)
    \/ \E o \in PostOutcomes : PostEnds(o)
    \/ \E o \in NoticeOutcomes : NoticeEnds(o)

SpecSend == Init /\ [][NextSend]_vars

\* ------------------------------------------------ identifier extractor
\* A text is a sequence of tokens.  A run of n digits is [k |-> "d", n |-> n]; the other
\* tokens are pieces of text that hold no digit:
\*   "cfg"  configure?id=      "CFG"  CONFIGURE?ID=      "gp"  game-pass/
\*   "x"    a letter           "sp"   a blank            "amp" &
MinDigits == 6
MaxDigits == 20
DigitLens == {1, MinDigits - 1, MinDigits, MaxDigits, MaxDigits + 1}
Run(n) == [k |-> "d", n |-> n]
Lit(k) == [k |-> k, n |-> 0]
Tokens == {Run(n) : n \in DigitLens} \cup {Lit(k) : k \in {"cfg", "CFG", "gp", "x", "sp", "amp"}}
\* two digit runs side by side are one run
WellFormed(t) == \A i \in 1..(Len(t) - 1) : ~(t[i].k = "d" /\ t[i + 1].k = "d")
Texts(n) == {t \in [1..n -> Tokens] : WellFormed(t)}

\* whether the first / the last character of a token is a word character of the re module
WordFirst(tok) == tok.k \in {"d", "x", "cfg", "CFG", "gp"}
WordLast(tok) == tok.k \in {"d", "x"}

\* line 133: text.strip()
RECURSIVE lstrip(_)
lstrip(t) == IF t # <<>> /\ Head(t).k = "sp" THEN lstrip(Tail(t)) ELSE t
RECURSIVE rstrip(_)
rstrip(t) == IF t # <<>> /\ t[Len(t)].k = "sp" THEN rstrip(SubSeq(t, 1, Len(t) - 1)) ELSE t
strip(t) == rstrip(lstrip(t))

\* the least index of a set of indices, 0 when there is none: the leftmost match
FirstIndex(S) == IF S = {} THEN 0 ELSE CHOOSE i \in S : \A j \in S : i <= j

\* line 134: "configure?id=" in s.lower()
HasMarker(s) == \E i \in 1..Len(s) : s[i].k \in {"cfg", "CFG"}

\* lines 136-137: urlparse(s).query starts after the first "?", parse_qs cuts it at "&" and
\* at the first "=" of each piece; the value of the key "id" (the key is compared as
\* written, so "ID" is another key) is what stands between the marker and the next "&"
QueryId(s) ==
    LET m == FirstIndex({i \in 1..Len(s) : s[i].k \in {"cfg", "CFG"}})
        rest == SubSeq(s, m + 1, Len(s))
        a == FirstIndex({i \in 1..Len(rest) : rest[i].k = "amp"})
        value == IF a = 0 THEN rest ELSE SubSeq(rest, 1, a - 1)
    IN IF s[m].k = "cfg" THEN [at |-> m + 1, value |-> value] ELSE [at |-> 0, value |-> <<>>]

\* line 138: gid and gid.isdigit()
IsDigit(value) == Len(value) = 1 /\ value[1].k = "d"

\* lines 134-139
FromConfigure(s) ==
    IF HasMarker(s) /\ IsDigit(QueryId(s).value)
    THEN [pattern |-> 1, at |-> QueryId(s).at, digits |-> QueryId(s).value[1].n]
    ELSE NoId

\* lines 142-144: re.search(r"game[-_]pass/(\d+)", s): the leftmost path token followed by
\* digits; the group is the whole run
FromPath(s) ==
    LET i == FirstIndex({j \in 1..(Len(s) - 1) : s[j].k = "gp" /\ s[j + 1].k = "d"})
    IN IF i # 0 THEN [pattern |-> 2, at |-> i + 1, digits |-> s[i + 1].n] ELSE NoId

\* lines 145-147: re.search(r"\b(\d{6,20})\b", s): the leftmost run of 6 to 20 digits with no
\* word character on either side
Standalone(s, i) ==
    /\ s[i].k = "d"
    /\ s[i].n >= MinDigits /\ s[i].n <= MaxDigits
    /\ i = 1 \/ ~WordLast(s[i - 1])
    /\ i = Len(s) \/ ~WordFirst(s[i + 1])
FromRun(s) ==
    LET i == FirstIndex({j \in 1..Len(s) : Standalone(s, j)})
    IN IF i # 0 THEN [pattern |-> 3, at |-> i, digits |-> s[i].n] ELSE NoId

\* lines 130-148
extract_gamepass_id(text) ==
    IF text = <<>> THEN NoId
    ELSE LET s == strip(text)
         IN IF FromConfigure(s) # NoId THEN FromConfigure(s)
            ELSE IF FromPath(s) # NoId THEN FromPath(s)
            ELSE FromRun(s)

\* extract_gamepass_id(text) is called and returns
ExtractCall(text) ==
    /\ ex.pc = "idle"
    /\ ex' = [pc |-> "returned", text |-> text, ret |-> extract_gamepass_id(text)]
    /\ UNCHANGED <<lv, cop, batch, pk, snd, pay, pg, cache, ROBLOSECURITY, now, api_tokens, api_last,
                   api_lock, task, scans, jumps, gcalls, released, first, last>>

NextExtract == \E n \in 0..MaxTokens : \E text \in Texts(n) : ExtractCall(text)

SpecExtract == Init /\ [][NextExtract]_vars

\* ------------------------------------------------ payout
\* line 158: price * 0.30, in tenths.  The product is a double; for a price p = 5 (mod 10) it
\* is exactly the half-integer 3p/10 (the error of the double 0.30, p * 1.1e-17, is below
\* half a unit in the last place of 3p/10, which is at least p * 1.6e-17), and for any other
\* price below 10^15 it is within 10^-2 of 3p/10, a number ending in .0 to .4 or .6 to .9:
\* in both cases Decimal(n) rounds as the exact product 3p/10 rounds.
TimesRate(price) == 3 * price

\* Python's round(): the tie goes to the even neighbour
round_half_even(tenths) ==
    LET q == tenths \div 10
        r == tenths % 10
    IN IF r < 5 THEN q ELSE IF r > 5 THEN q + 1 ELSE IF q % 2 = 0 THEN q ELSE q + 1
\* lines 151-152: Decimal(n).quantize(Decimal("1"), rounding=ROUND_HALF_UP), n >= 0
round_half_up(tenths) == (tenths + 5) \div 10

\* lines 155-159; NoPrice stands for None
Fee(price) == round_half_up(TimesRate(price))
robux_received_after_fee(price) ==
    IF price = NoPrice THEN NoPrice ELSE Max(0, price - Fee(price))

\* robux_received_after_fee(price) is called and returns
PayoutCall(price) ==
    /\ pay.pc = "idle"
    /\ pay' = [pc |-> "returned", price |-> price,
               fee |-> IF price = NoPrice THEN 0 ELSE Fee(price),
               ret |-> robux_received_after_fee(price)]
    /\ UNCHANGED <<lv, cop, batch, pk, snd, ex, pg, cache, ROBLOSECURITY, now, api_tokens, api_last,
                   api_lock, task, scans, jumps, gcalls, released, first, last>>

NextPayout == \E price \in (0..MaxPrice) \cup {NoPrice} : PayoutCall(price)

SpecPayout == Init /\ [][NextPayout]_vars

\* ------------------------------------------------ force invalidation
\* listing IDs: the first is the leading part of the second
PurgeIds == {"123456", "1234567", "7654321"}
\* the keys lines 167, 199 and 225 build for an ID
PurgeKeys ==
    UNION {{PriceKey(id), DetailsKey(None, id), HttpKey(None, id)} : id \in PurgeIds}

\* _setc(k, v)
PurgeStore(k, v) ==
    /\ Cardinality(DOMAIN cache \cup {k}) <= MaxEntries
    /\ cache' = setc(cache, k, v, now)
    /\ pg' = NoPurge
    /\ UNCHANGED <<lv, cop, batch, pk, snd, ex, pay, ROBLOSECURITY, now, api_tokens, api_last,
                   api_lock, task, scans, jumps, gcalls, released, first, last>>

\* _clear_gp_cache(gp_id), lines 79-82
PurgeCall(gp_id) ==
    /\ cache' = clear_gp_cache(cache, gp_id)
    /\ pg' = [op |-> "purge", gp_id |-> gp_id, before |-> cache]
    /\ UNCHANGED <<lv, cop, batch, pk, snd, ex, pay, ROBLOSECURITY, now, api_tokens, api_last,
                   api_lock, task, scans, jumps, gcalls, released, first, last>>

NextPurge ==
    \/ \E k \in PurgeKeys, v \in CacheVals : PurgeStore(k, v)
    \/ \E gp_id \in PurgeIds : PurgeCall(gp_id)
    \/ Tick(1, MaxPurgeJumps)

SpecPurge == Init /\ [][NextPurge]_vars

\* ------------------------------------------------ a batch with its lookups
\* The IDs of a batch are distinct and the cache is empty when the batch starts, so every
\* lookup begins with a miss.  The clock is left out: whether line 115 finds a token depends
\* on the time that has passed, which may be any, so the gate may admit or sleep.  A task
\* runs from one await that suspends it to the next in one step.

\* a 200 whose JSON is a non-empty list: line 214 raises AttributeError
LiveResponses == Responses \cup {[status |-> 200, body |-> "list"]}

\* a permit given back on the success path only
LiveReleaseOnSuccess(sem, ret) == IF ret = "error" THEN sem ELSE sem + 1
\* line 452: `async with sem` gives the permit back however the block is left
LiveRelease(sem, ret) == sem + 1

\* one() returns ret (lines 458, 479) and leaves `async with sem`
LiveFinish(l, t, ret) ==
    [l EXCEPT !.one[t] = [LiveTask EXCEPT !.pc = "done", !.ret = ret],
              !.sem = LiveRelease(l.sem, ret)]

\* lines 173-180 and 109-120: the next iteration awaits the gate.  The block of _api_lock
\* holds no await: the lock is free when a task reaches it and free again before the task is
\* suspended, in the sleep of line 120 or in the GET of line 180, so it is not part of the state.
LiveAttempt(l, t, ph, i, admit) ==
    IF admit
    THEN [l EXCEPT !.one[t].pc = "http", !.one[t].ph = ph, !.one[t].i = i,
                   !.one[t].tries = @ + 1]
    ELSE [l EXCEPT !.one[t].pc = "gatesleep", !.one[t].ph = ph, !.one[t].i = i]

\* lines 230-234 and 432-439: a lookup has ended without a price; got is "data" or "none".
\* The anonymous lookup follows the first one; when the first one was anonymous already
\* (no credential) and stored its data, api_get_details answers from the cache (line 200).
LiveAfterLookup(l, t, got, admit) ==
    IF l.one[t].ph = 1
    THEN IF got = "data" /\ OrNone(ROBLOSECURITY) = None
         THEN LiveFinish(l, t, "card")
         ELSE LiveAttempt(l, t, 2, 0, admit)
    ELSE LiveFinish(l, t, "card")

\* line 173: the loop goes on, or line 194 returns None
LiveNextIteration(l, t, admit) ==
    IF LoopContinues(l.one[t].i)
    THEN LiveAttempt(l, t, l.one[t].ph, l.one[t].i + 1, admit)
    ELSE LiveAfterLookup(l, t, "none", admit)

\* build_components_for_ids(gp_ids) is called with n IDs: lines 444-481
LiveCall(n) ==
    /\ lv.pc = "idle"
    /\ lv' = IF n = 0 THEN [NoLive EXCEPT !.pc = "returned"]
             ELSE [NoLive EXCEPT !.pc = "gather", !.n = n, !.one = [t \in 1..n |-> LiveTask]]
    /\ UNCHANGED <<cop, batch, pk, snd, ex, pay, pg, cache, ROBLOSECURITY, now, api_tokens,
                   api_last, api_lock, task, scans, jumps, gcalls, released, first, last>>

\* line 452: one(gid) gets a permit; scan_one runs to the gate of its first attempt.  The
\* tasks of line 481 start in list order and the semaphore wakes its waiters in that order.
LiveEnter(t, admit) ==
    /\ lv.pc = "gather" /\ t \in 1..lv.n
    /\ lv.one[t].pc = "wait"
    /\ \A u \in 1..(t - 1) : lv.one[u].pc # "wait"
    /\ SemFree(lv.sem)
    /\ lv' = LiveAttempt([lv EXCEPT !.sem = @ - 1], t, 1, 0, admit)
    /\ UNCHANGED <<cop, batch, pk, snd, ex, pay, pg, cache, ROBLOSECURITY, now, api_tokens,
                   api_last, api_lock, task, scans, jumps, gcalls, released, first, last>>

\* line 120: the sleep is over, _api_rate_gate returns, line 180 sends the GET
LiveGateWake(t) ==
    /\ lv.pc = "gather" /\ t \in 1..lv.n
    /\ lv.one[t].pc = "gatesleep"
    /\ lv' = [lv EXCEPT !.one[t].pc = "http", !.one[t].tries = @ + 1]
    /\ UNCHANGED <<cop, batch, pk, snd, ex, pay, pg, cache, ROBLOSECURITY, now, api_tokens,
                   api_last, api_lock, task, scans, jumps, gcalls, released, first, last>>

\* lines 180-193: the GET is answered (or fails); the task runs to its next suspension
LiveResponse(t, r, admit) ==
    /\ lv.pc = "gather" /\ t \in 1..lv.n
    /\ lv.one[t].pc = "http"
    /\ LET k == AttemptOutcome(r)
           l == [lv EXCEPT !.faults = @ + 1]
       IN  IF k = "data" /\ r.body = "priced"
           THEN lv' = LiveFinish(lv, t, "card")
           ELSE /\ lv.faults < MaxLiveFaults
                /\ lv' = CASE k = "data" /\ r.body = "list" -> LiveFinish(l, t, "error")
                           [] k = "data" /\ r.body # "list" ->
                                  LiveAfterLookup(l, t, "data", admit)
                           [] k = "none" -> LiveAfterLookup(l, t, "none", admit)
                           [] k \in {"backoff", "except"} -> [l EXCEPT !.one[t].pc = "backoff"]
                           [] k = "next" -> LiveNextIteration(l, t, admit)
    /\ UNCHANGED <<cop, batch, pk, snd, ex, pay, pg, cache, ROBLOSECURITY, now, api_tokens,
                   api_last, api_lock, task, scans, jumps, gcalls, released, first, last>>

\* lines 188-189, 192-193: the backoff sleep is over, `continue`
LiveBackoffWake(t, admit) ==
    /\ lv.pc = "gather" /\ t \in 1..lv.n
    /\ lv.one[t].pc = "backoff"
    /\ lv' = LiveNextIteration(lv, t, admit)
    /\ UNCHANGED <<cop, batch, pk, snd, ex, pay, pg, cache, ROBLOSECURITY, now, api_tokens,
                   api_last, api_lock, task, scans, jumps, gcalls, released, first, last>>

\* lines 482-484: every task is done, gather returns, the summary is appended
LiveGather ==
    /\ lv.pc = "gather"
    /\ \A t \in 1..lv.n : lv.one[t].pc = "done"
    /\ lv' = [lv EXCEPT !.pc = "returned", !.out = lv.n + 1]
    /\ UNCHANGED <<cop, batch, pk, snd, ex, pay, pg, cache, ROBLOSECURITY, now, api_tokens,
                   api_last, api_lock, task, scans, jumps, gcalls, released, first, last>>

\* the steps the event loop takes once the batch is running
LiveRun ==
    \/ \E t \in 1..MaxLiveIds, admit \in BOOLEAN : LiveEnter(t, admit)
    \/ \E t \in 1..MaxLiveIds : LiveGateWake(t)
    \/ \E t \in 1..MaxLiveIds, r \in LiveResponses, admit \in BOOLEAN : LiveResponse(t, r, admit)
    \/ \E t \in 1..MaxLiveIds, admit \in BOOLEAN : LiveBackoffWake(t, admit)
    \/ LiveGather

NextLive ==
    \/ \E n \in 0..MaxLiveIds : LiveCall(n)
    \/ LiveRun

\* the event loop keeps running what is runnable; every HTTP call and every sleep completes
SpecLive == Init /\ [][NextLive]_vars /\ WF_vars(LiveRun)

\* ------------------------------------------------------------ properties
\* the total weight of a chunk, and the chunks joined in order
RECURSIVE Weight(_)
Weight(chunk) == IF chunk = <<>> THEN 0 ELSE component_size(Head(chunk)) + Weight(Tail(chunk))
RECURSIVE Joined(_)
Joined(chunks) == IF chunks = <<>> THEN <<>> ELSE Head(chunks) \o Joined(Tail(chunks))
\* the sum of the prices of the IDs at the positions in S
RECURSIVE SumPrices(_)
SumPrices(S) ==
    IF S = {} THEN 0 ELSE LET i == CHOOSE x \in S : TRUE IN PriceAt(i) + SumPrices(S \ {i})
\* C1: every call of _api_rate_gate that has returned to its caller decremented the token
\* count by exactly one, so the calls released since start never exceed
\* burst + rate x elapsed time (in units of 1/TokScale token).
C1_OneTokenPerRelease ==
    /\ \A t \in Tasks : task[t].pc = "returned" => task[t].g.dec = 1
    /\ (released + Cardinality({t \in Tasks : task[t].pc = "returned"})) * TokScale
           <= API_BURST * TokScale + (now * API_RPS * TokScale) \div TicksPerSec

\* C2: in every reachable state the token count lies in [0, burst].
C2_TokensInRange == 0 <= api_tokens /\ api_tokens <= API_BURST * TokScale
\* more calls than the burst have been made, the bucket refilled up to its cap a second
\* or more after the start, and the last call took its token from the full bucket
C2_RefilledToCap ==
    /\ gcalls = API_BURST + 1
    /\ api_last >= TicksPerSec
    /\ api_tokens = (API_BURST - 1) * TokScale

\* C3: from a full bucket with no time elapsing, no call suspends before `burst` calls have
\* returned unsuspended; the call after them suspends (1 - tokens)/rate = 1/rate seconds,
\* at least 0.01 s, and a call that suspended returns only once that time has passed.
C3_BurstThenSuspend ==
    /\ now = 0 =>
         /\ released + Cardinality({t \in Tasks : task[t].pc = "returned"}) <= API_BURST
         /\ \A t \in Tasks :
              /\ task[t].pc = "returned" => task[t].g.slept = 0
              /\ task[t].pc = "gatesleep" =>
                   /\ released + Cardinality({u \in Tasks : task[u].pc = "returned"}) = API_BURST
                   /\ api_tokens = 0
                   /\ task[t].g.slept = TicksPerSec \div API_RPS
                   /\ task[t].g.slept >= MinSleepTicks
                   /\ task[t].wake = task[t].g.enter + task[t].g.slept
    /\ \A t \in Tasks :
         task[t].pc = "returned" /\ task[t].g.slept > 0 => now >= task[t].g.enter + task[t].g.slept
\* the call made at time 0 after `burst` released ones has slept 1/rate seconds and returned
C3_SuspendedThenReturned ==
    \E t \in Tasks :
        /\ task[t].pc = "returned"
        /\ released = API_BURST
        /\ task[t].g.enter = 0
        /\ task[t].g.slept = TicksPerSec \div API_RPS
        /\ task[t].g.dec = 0

\* C4: a fetch call has never issued more GETs than it has completed gate acquires, and
\* the GET in flight is the one the latest acquire was made for.
C4_GateBeforeAttempt ==
    \A t \in Tasks : \A ph \in 1..2 :
        /\ task[t].f[ph].tries <= task[t].f[ph].acquires
        /\ task[t].pc = "http" /\ task[t].ph = ph =>
              /\ task[t].f[ph].tries = task[t].f[ph].acquires
              /\ task[t].f[ph].tries = task[t].i + 1
\* a third attempt is in flight, after three acquires
C4_ThirdAttemptGated ==
    \E t \in Tasks :
        /\ task[t].pc = "http"
        /\ task[t].f[1].tries = attempts
        /\ task[t].f[1].acquires = attempts

\* C5: a fetch call makes at most 3 GETs; one that returned without any 200 returned
\* none; no exception leaves it.
C5_ThreeAttemptsThenNone ==
    \A t \in Tasks :
        /\ ~task[t].raised
        /\ \A ph \in 1..2 :
              /\ task[t].f[ph].tries <= attempts
              /\ task[t].f[ph].called /\ ~task[t].f[ph].active =>
                    task[t].f[ph].ret \in {"none", "data"}
              /\ task[t].f[ph].called /\ ~task[t].f[ph].active /\ task[t].f[ph].tries > 0
                   /\ ~task[t].f[ph].s200 => task[t].f[ph].ret = "none"
\* a call that used its three attempts without a 200 and returned none
C5_ExhaustedReturnsNone ==
    \E t \in Tasks :
        /\ task[t].f[1].called /\ ~task[t].f[1].active
        /\ task[t].f[1].tries = attempts
        /\ ~task[t].f[1].s200 /\ ~task[t].f[1].s401
        /\ task[t].f[1].ret = "none"

\* C6: once an attempt of a fetch call has received 401 the call has returned none, and
\* has issued no GET, started no backoff sleep and written no cache entry after it.
C6_Stop401 ==
    \A t \in Tasks : \A ph \in 1..2 :
        task[t].f[ph].s401 =>
            /\ ~task[t].f[ph].active
            /\ task[t].f[ph].ret = "none"
            /\ task[t].f[ph].after401 = 0
\* a 401 received by the second attempt of a call
C6_SecondAttempt401 ==
    \E t \in Tasks :
        /\ task[t].f[1].s401
        /\ task[t].f[1].tries = 2
        /\ task[t].f[1].ret = "none"

\* C7: a fetch call that received 429 or a 5xx status on attempt i and has not returned
\* is in its 0.25 * 2^i s backoff sleep, or has completed it, before it does anything else.
C7_BackoffAfter429or5xx ==
    \A t \in Tasks : \A ph \in 1..2 :
        task[t].f[ph].owed # 0 =>
            /\ task[t].pc = "backoff"
            /\ task[t].f[ph].owed = Backoff(task[t].i)

\* C8: the anonymous lookup starts only after the first lookup completed without a price;
\* a first lookup that yields a price is the only one; the first lookup carries the
\* configured credential and the second none.
C8_AuthenticatedFirst ==
    \A t \in Tasks :
        /\ task[t].lk[1].started => task[t].lk[1].cookie = OrNone(ROBLOSECURITY)
        /\ task[t].lk[2].started =>
              /\ task[t].lk[2].cookie = None
              /\ task[t].lk[1].done
              /\ task[t].lk[1].price = NoPrice
        /\ task[t].lk[1].done /\ task[t].lk[1].price # NoPrice => ~task[t].lk[2].started
\* the credential was rejected with 401 and the anonymous lookup has started
C8_FallbackAfter401 ==
    \E t \in Tasks :
        /\ ROBLOSECURITY = "cred"
        /\ task[t].f[1].s401
        /\ task[t].lk[2].started

\* C9 as stated: a non-force get_price_any that starts within TTL of the first completed
\* get_price_any (none forced since) returns that call's pair without any GET or acquire.
C9_SameAsFirstCompletion ==
    \A t \in Tasks : \A P \in task[t].req :
        /\ task[t].pc = "idle"
        /\ task[t].ret = P
        /\ \A ph \in 1..2 : task[t].f[ph].tries = 0 /\ task[t].f[ph].acquires = 0
\* C9: a non-force get_price_any that starts within TTL of the most recent completion
\* that stored its pair (none forced since) returns that pair, whatever it is, without
\* any GET or acquire.
C9_SameAsLatestStore ==
    \A t \in Tasks : \A P \in task[t].reqLast :
        /\ task[t].pc = "idle"
        /\ task[t].ret = P
        /\ ~task[t].lk[1].started
        /\ \A ph \in 1..2 : task[t].f[ph].tries = 0 /\ task[t].f[ph].acquires = 0
\* (none, none), stored at time 0, is returned from the cache exactly TTL later
C9_NoneServedAtTTL ==
    \E t \in Tasks :
        /\ now = TTLTicks
        /\ last.valid /\ last.t = 0
        /\ task[t].reqLast = {Pair(NoPrice, NoData)}
        /\ task[t].ret = Pair(NoPrice, NoData)
        /\ ~task[t].stored

\* C10: the details a lookup returns were fetched with a credential exactly when the
\* lookup itself carries one.
C10_SeparateByCredential ==
    \A t \in Tasks : \A ph \in 1..2 :
        task[t].lk[ph].done /\ task[t].lk[ph].dret # NoData =>
            task[t].lk[ph].dret.by = (task[t].lk[ph].cookie # None)
\* an anonymous lookup served from the cache while an authenticated entry is cached too
C10_AnonymousHitBesideAuthenticated ==
    \E t \in Tasks :
        /\ ROBLOSECURITY = "cred"
        /\ task[t].lk[2].done
        /\ task[t].lk[2].src = "details"
        /\ DetailsKey("cred", GpId) \in DOMAIN cache
        /\ DetailsKey(None, GpId) \in DOMAIN cache

\* C11: a value set under k is what a get of k returns while its age is <= TTL, the entry
\* staying in place; a get once the age exceeds TTL misses and removes k's entry only; a
\* get with bypass misses and leaves the cache as it was.
C11_RoundTripAndExpiry ==
    LET k == cop.key
        w == cop.sets[k]
        age == cop.at - w.ts
    IN  /\ cop.op = "set" =>
              k \in DOMAIN cache /\ cache[k] = [ts |-> cop.at, val |-> cop.ret]
        /\ cop.op = "get" /\ cop.bypass => ~cop.hit /\ cop.ret = NoRet /\ cache = cop.before
        /\ cop.op = "get" /\ ~cop.bypass /\ w = NoEntry => ~cop.hit /\ cache = cop.before
        /\ cop.op = "get" /\ ~cop.bypass /\ w # NoEntry /\ age <= TTLTicks =>
              /\ cop.hit /\ cop.ret = w.val
              /\ cache = cop.before
              /\ k \in DOMAIN cache /\ cache[k] = w
        /\ cop.op = "get" /\ ~cop.bypass /\ w # NoEntry /\ age > TTLTicks =>
              /\ ~cop.hit /\ cop.ret = NoRet
              /\ k \notin DOMAIN cache
              /\ \A q \in DOMAIN cop.before \ {k} : q \in DOMAIN cache /\ cache[q] = cop.before[q]
\* a get at age exactly TTL returned the value set
C11_HitAtTTL ==
    /\ cop.op = "get" /\ ~cop.bypass /\ cop.hit
    /\ cop.at - cop.sets[cop.key].ts = TTLTicks
    /\ cop.ret = cop.sets[cop.key].val

\* C12: the step that starts a force scan leaves no cache entry whose key contains the ID
\* and takes the scan to the rate gate of its first lookup's first attempt; the first
\* lookup of a force scan, once done, was answered by the upstream after at least one GET.
C12_ForcePurgesBeforeLookup ==
    [][\A t \in Tasks :
          /\ scans' = scans + 1 /\ task'[t] # task[t] /\ task'[t].force =>
                /\ \A k \in DOMAIN cache' : ~IsSubstr(Digits(GpId), Digits(k.id))
                /\ task'[t].pc = "gate" /\ task'[t].ph = 1 /\ task'[t].f[1].active
          /\ task'[t].force /\ task'[t].lk[1].done =>
                task'[t].lk[1].src = "upstream" /\ task'[t].f[1].tries >= 1]_vars
\* a force scan has just begun after another scan had stored its entries: none is left
C12_PurgedAfterStore ==
    \E t \in Tasks, u \in Tasks :
        /\ scans = 2
        /\ task[u].pc = "idle" /\ task[u].stored /\ ~task[u].force
        /\ task[t].force /\ task[t].pc = "gate" /\ task[t].f[1].tries = 0
        /\ DOMAIN cache = {}

C14_AtMostSixInFlight ==
    /\ Cardinality({i \in 1..batch.n : batch.one[i] = "scan"}) <= 6
    /\ Cardinality({i \in 1..batch.n : batch.one[i] = "scan"}) = Permits - batch.sem
\* six lookups are in flight and a seventh waits for a permit
C14_SeventhWaits ==
    /\ Cardinality({i \in 1..batch.n : batch.one[i] = "scan"}) = 6
    /\ \E i \in 1..batch.n : batch.one[i] = "new"

\* C15: the summary of a returned batch of n IDs reports n items scanned, the number of
\* lookups that returned a price, and the sum of exactly those prices.
C15_SummaryCounts ==
    batch.pc = "returned" /\ batch.n > 0 =>
        LET priced == {i \in 1..batch.n : batch.one[i] = "priced"}
            sm == batch.out[batch.n + 1]
        IN  /\ sm.n_scanned = batch.n
            /\ sm.n_with_price = Cardinality(priced)
            /\ sm.total_price = SumPrices(priced)
\* a returned batch with a failed lookup, a lookup without price and a price of 0 counted
C15_MixedBatch ==
    /\ batch.pc = "returned" /\ batch.n >= 4
    /\ batch.one[1] = "priced" /\ batch.one[2] = "raise" /\ batch.one[3] = "none"
    /\ batch.one[4] = "priced"
    /\ batch.out[batch.n + 1].n_scanned = batch.n
    /\ batch.out[batch.n + 1].n_with_price >= 2

\* C16: every chunk returned is non-empty and weighs at most 40, except that a component
\* weighing more than 40 is in a chunk that holds it alone.
C16_ChunksWithinCapacity ==
    pk.pc = "returned" =>
        \A j \in 1..Len(pk.chunks) :
            LET chunk == pk.chunks[j]
            IN  /\ chunk # <<>>
                /\ Weight(chunk) <= 40 \/ (Len(chunk) = 1 /\ component_size(chunk[1]) > 40)
                /\ \A x \in 1..Len(chunk) : component_size(chunk[x]) > 40 => Len(chunk) = 1
\* an oversized component alone between two chunks of several components
C16_OversizedAlone ==
    /\ pk.pc = "returned" /\ Len(pk.chunks) >= 2
    /\ \E j \in 1..Len(pk.chunks) :
          Len(pk.chunks[j]) = 1 /\ component_size(pk.chunks[j][1]) > 40
    /\ \E j \in 1..Len(pk.chunks) : Len(pk.chunks[j]) = 2 /\ Weight(pk.chunks[j]) = 40

\* C17: the chunks joined in order are the input list, and a chunk ends only where the
\* next component added to it would take it over the capacity.
C17_OrderKeptGreedy ==
    pk.pc = "returned" =>
        /\ Joined(pk.chunks) = pk.components
        /\ \A j \in 1..(Len(pk.chunks) - 1) :
              Weight(pk.chunks[j]) + component_size(pk.chunks[j + 1][1]) > 40
\* a list split in two chunks because its last component would overflow the first
C17_SplitOnOverflow ==
    /\ pk.pc = "returned" /\ Len(pk.components) = 3 /\ Len(pk.chunks) = 2
    /\ Len(pk.chunks[1]) = 2 /\ Weight(pk.chunks[1]) <= 40
    /\ component_size(pk.chunks[2][1]) <= 40

\* C18 as stated: the chunks are posted one per call in chunk order; once a POST has failed
\* no later chunk is posted, and when the function is over exactly one error notice has
\* been sent.
C18_StopAtFirstFailure ==
    /\ Len(snd.posts) <= Len(snd.chunks)
    /\ snd.posts = SubSeq(snd.chunks, 1, Len(snd.posts))
    /\ snd.failed # 0 => Len(snd.posts) = snd.failed
    /\ snd.failed # 0 /\ snd.pc \in {"returned", "raised"} => snd.delivered = 1
    /\ snd.failed = 0 => snd.notices = 0 /\ snd.delivered = 0
\* C18: the chunks are posted one per call in chunk order; once a POST has failed no later
\* chunk is posted and exactly one error notice is attempted: it is sent when that call
\* succeeds, and when that call raises the exception leaves the function.
C18_StopAtFirstFailureOneAttempt ==
    /\ Len(snd.posts) <= Len(snd.chunks)
    /\ snd.posts = SubSeq(snd.chunks, 1, Len(snd.posts))
    /\ snd.pc = "returned" /\ snd.failed = 0 => snd.posts = snd.chunks
    /\ snd.failed # 0 =>
          /\ Len(snd.posts) = snd.failed
          /\ snd.pc \in {"notice", "returned", "raised"}
          /\ snd.notices = 1
          /\ snd.pc = "returned" => snd.delivered = 1
          /\ snd.pc = "raised" => snd.delivered = 0
    /\ snd.failed = 0 => snd.notices = 0 /\ snd.delivered = 0 /\ snd.pc # "raised"
\* the second of three chunks failed after the first was sent: one notice, no third POST
C18_SecondOfThreeFailed ==
    /\ snd.pc = "returned"
    /\ Len(snd.chunks) = 3 /\ snd.failed = 2
    /\ Len(snd.posts) = 2 /\ snd.delivered = 1

\* C19: whatever the text and whichever of the three patterns produced the result,
\* extract_gamepass_id returns None or a string of 6 to 20 digits.
C19_SixToTwentyDigits ==
    ex.pc = "returned" /\ ex.ret # NoId =>
        ex.ret.digits >= MinDigits /\ ex.ret.digits <= MaxDigits

\* C20: for a price p >= 0 the fee is the integer nearest to 3p/10, the half going up
\* (-5 <= 3p - 10 fee <= 4), the payout is max(0, p - fee) and lies in 0..p, the payout of
\* 100 is 70, and the payout of a missing price is none.
C20_PayoutAfterFee ==
    pay.pc = "returned" =>
        IF pay.price = NoPrice THEN pay.ret = NoPrice
        ELSE /\ 3 * pay.price - 10 * pay.fee \in -5..4
             /\ pay.ret = (IF pay.price >= pay.fee THEN pay.price - pay.fee ELSE 0)
             /\ pay.ret >= 0 /\ pay.ret <= pay.price
             /\ pay.price = 100 => pay.fee = 30 /\ pay.ret = 70
\* a price of 15: the fee 4.5 is rounded up to 5 and 10 are paid out
C20_HalfRoundsUp == pay.pc = "returned" /\ pay.price = 15 /\ pay.fee = 5 /\ pay.ret = 10

\* C21: after _clear_gp_cache(X), every entry that was stored for a listing ID other than X
\* is still present with the same timestamp and value.
C21_OtherIdsKept ==
    pg.op = "purge" =>
        \A k \in DOMAIN pg.before :
            k.id # pg.gp_id => k \in DOMAIN cache /\ cache[k] = pg.before[k]

\* the permits out: the tasks between `async with sem` and their return
Holding == {t \in 1..lv.n : lv.one[t].pc \notin {"wait", "done"}}

====
